---------------------------- MODULE Spec2Model ----------------------------
(***************************************************************************)
(* The coupon service of src/app.py: the three state-changing routes       *)
(* /generate_coupon, /validate_coupon/<id> and /admin/reset_limit over the  *)
(* two collections of the document store (coupons, config).                *)
(*                                                                         *)
(* Every store operation of a handler (find_one, insert_one, update_one)   *)
(* is one atomic step; the handler's local computation is folded into the  *)
(* step of the store operation that follows it.  A handler runs in a       *)
(* request slot and ends in the slot with its response, which Return       *)
(* hands to the client.  The read-only routes /test_db and /admin/stats     *)
(* change nothing and are left out, and so is the field created_at, which  *)
(* nothing reads.                                                          *)
(***************************************************************************)
EXTENDS Integers, FiniteSets, TLC

(* ------------------------------ bounds --------------------------------- *)

\* number of distinct values str(uuid.uuid4())[:8] can take in the model
MaxIds == 2
\* the clock runs from 0 to MaxTime
MaxTime == 2
\* limits a reset payload can carry: 0..MaxLimit (or no "limit" key)
MaxLimit == 1

(* ------------------------- program constants --------------------------- *)

\* MASTER_IP = os.getenv('MASTER_IP', '192.168.137.1')
MASTER_IP == "192.168.137.1"
\* the 'limit' a fresh config record gets, and request.json.get('limit', 150)
DefaultLimit == 150
\* timedelta(days=1), in clock units
Day == 1
\* 'discount': '10%'
Discount == "10%"

\* caller addresses: the privileged one and two others
IPs == {MASTER_IP, "10.0.0.1", "10.0.0.2"}
\* the identifiers uuid4()[:8] can produce
IDs == 1..MaxIds
\* request slots: handlers that can be in progress at once
Procs == {1, 2}
\* request.json of a reset: {"limit": n}, or an object without the key
NoLimit == [nokey |-> TRUE]
Payloads == [limit : 0..MaxLimit] \cup {NoLimit}

\* find_one() finding nothing
None == [absent |-> TRUE]

VARIABLES
    coupons,   \* db.coupons: identifier -> document, or None
    config,    \* db.config's record 'coupon_limit': [limit, current_count]
    now,       \* datetime.now()
    jar,       \* per device (one per address): holds the cookie 'coupon_generated'
    req,       \* per slot: the handler's position and locals, then its response
    redeemed,  \* history: per identifier, the number of valid:true responses
    issued     \* history: coupons written for other addresses than MASTER_IP
               \* since the last reset

vars == <<coupons, config, now, jar, req, redeemed, issued>>

Idle == [pc |-> "idle"]

(* ------------------------------ helpers -------------------------------- *)

\* is_ip_allowed: defined by the program and called by none of its handlers
is_ip_allowed(ip) ==
    ip = MASTER_IP \/ ~(\E c \in IDs : coupons[c] # None /\ coupons[c].generating_ip = ip)

\* mutant: the limit itself still admits a coupon
can_generate_coupon_Leq(cfg) == cfg.current_count <= cfg.limit

can_generate_coupon(cfg) == cfg.current_count < cfg.limit

\* mutant: a conditional update that stops at the limit
increment_coupon_count_Capped(cfg) ==
    IF cfg.current_count < cfg.limit THEN [cfg EXCEPT !.current_count = @ + 1] ELSE cfg

increment_coupon_count(cfg) == [cfg EXCEPT !.current_count = @ + 1]

\* mutant: the limit is checked before the cookie
GenerateGate_LimitFirst(cookie, ip, cfg) ==
    IF ~can_generate_coupon(cfg) /\ ip # MASTER_IP THEN "limit"
    ELSE IF cookie THEN "already"
    ELSE "pass"

\* mutant: the limit applies to MASTER_IP too
GenerateGate_MasterLimited(cookie, ip, cfg) ==
    IF cookie THEN "already"
    ELSE IF ~can_generate_coupon(cfg) THEN "limit"
    ELSE "pass"

\* the two early returns of generate_coupon, in the code's order
GenerateGate(cookie, ip, cfg) ==
    IF cookie THEN "already"
    ELSE IF ~can_generate_coupon(cfg) /\ ip # MASTER_IP THEN "limit"
    ELSE "pass"

coupon_data(ip, expiry) ==
    [valid |-> TRUE, expiry_date |-> expiry, discount |-> Discount, used |-> FALSE,
     generating_ip |-> ip, generated_by_master |-> (ip = MASTER_IP)]

\* mutant: the used flag is not looked at
ValidateGate_NoUsedCheck(coupon, t) ==
    IF coupon = None THEN "Coupon not found"
    ELSE IF t > coupon.expiry_date THEN "Coupon expired"
    ELSE "ok"

\* mutant: the expiry instant itself counts as expired
ValidateGate_GeqExpiry(coupon, t) ==
    IF coupon = None THEN "Coupon not found"
    ELSE IF coupon.used THEN "Coupon already used"
    ELSE IF t >= coupon.expiry_date THEN "Coupon expired"
    ELSE "ok"

\* the three early returns of validate_coupon, in the code's order
ValidateGate(coupon, t) ==
    IF coupon = None THEN "Coupon not found"
    ELSE IF coupon.used THEN "Coupon already used"
    ELSE IF t > coupon.expiry_date THEN "Coupon expired"
    ELSE "ok"

\* mutant: no check of the caller
ResetAuthorized_Anyone(ip) == TRUE

\* request.remote_addr != MASTER_IP answers 403
ResetAuthorized(ip) == ip = MASTER_IP

\* request.json.get('limit', 150)
new_limit(payload) == IF payload = NoLimit THEN DefaultLimit ELSE payload.limit

\* the response of generate_coupon, with what the request carried
GenResponse(r, status, msg) ==
    [pc |-> "done", route |-> "generate_coupon", ip |-> r.ip, cookie |-> r.cookie,
     status |-> status, msg |-> msg, set_cookie |-> (status = 200)]

(* ------------------------------- Init ---------------------------------- *)

Init ==
    /\ coupons = [c \in IDs |-> None]
    /\ config = [limit |-> DefaultLimit, current_count |-> 0]
    /\ now = 0
    /\ jar = [d \in IPs |-> FALSE]
    /\ req = [p \in Procs |-> Idle]
    /\ redeemed = [c \in IDs |-> 0]
    /\ issued = 0

(* ------------------------- /generate_coupon ---------------------------- *)

\* The cookie check, can_generate_coupon()'s read of the config record, and
\* the local choice of coupon_id and expiry_date.  d is the calling device,
\* ids the set uuid4 draws from.
GenCheck(p, d, ids) ==
    /\ req[p].pc = "idle"
    /\ LET gate == GenerateGate(jar[d], d, config)
           rq   == [ip |-> d, cookie |-> jar[d]]
       IN  IF gate = "already"
           THEN req' = [req EXCEPT ![p] = GenResponse(rq, 403, "already generated")]
           ELSE IF gate = "limit"
           THEN req' = [req EXCEPT ![p] = GenResponse(rq, 403, "limit reached")]
           ELSE \E id \in ids :
                req' = [req EXCEPT ![p] =
                    [pc |-> "insert", route |-> "generate_coupon", ip |-> d,
                     cookie |-> jar[d], id |-> id, expiry_date |-> now + Day]]
    /\ UNCHANGED <<coupons, config, now, jar, redeemed, issued>>

\* coupons_collection.insert_one(coupon_data): a duplicate _id raises, and the
\* handler's except answers 500
GenInsert(p) ==
    /\ req[p].pc = "insert"
    /\ IF coupons[req[p].id] # None
       THEN /\ req' = [req EXCEPT ![p] = GenResponse(req[p], 500, "duplicate key")]
            /\ UNCHANGED <<coupons, issued>>
       ELSE /\ coupons' = [coupons EXCEPT ![req[p].id] =
                    coupon_data(req[p].ip, req[p].expiry_date)]
            /\ issued' = IF req[p].ip # MASTER_IP THEN issued + 1 ELSE issued
            /\ req' = [req EXCEPT ![p].pc =
                    IF req[p].ip # MASTER_IP THEN "inc" ELSE "render"]
    /\ UNCHANGED <<config, now, jar, redeemed>>

\* increment_coupon_count(): one $inc on the config record
GenInc(p) ==
    /\ req[p].pc = "inc"
    /\ config' = increment_coupon_count(config)
    /\ req' = [req EXCEPT ![p].pc = "render"]
    /\ UNCHANGED <<coupons, now, jar, redeemed, issued>>

\* mutant: a failed rendering takes the coupon back
GenRender_Rollback(p, ok) ==
    /\ req[p].pc = "render"
    /\ req' = [req EXCEPT ![p] =
            IF ok THEN GenResponse(req[p], 200, "pdf")
                  ELSE GenResponse(req[p], 500, "render error")]
    /\ coupons' = IF ok THEN coupons ELSE [coupons EXCEPT ![req[p].id] = None]
    /\ UNCHANGED <<config, now, jar, redeemed, issued>>

\* generate_qr_code, create_coupon_pdf, send_file and set_cookie; ok = FALSE is
\* an exception raised by one of them, which the handler's except answers 500
GenRender(p, ok) ==
    /\ req[p].pc = "render"
    /\ req' = [req EXCEPT ![p] =
            IF ok THEN GenResponse(req[p], 200, "pdf")
                  ELSE GenResponse(req[p], 500, "render error")]
    /\ UNCHANGED <<coupons, config, now, jar, redeemed, issued>>

(* ----------------------- /validate_coupon/<id> ------------------------- *)

\* coupon = coupons_collection.find_one({'_id': coupon_id})
ValidateFind(p, id) ==
    /\ req[p].pc = "idle"
    /\ req' = [req EXCEPT ![p] =
            [pc |-> "update", route |-> "validate_coupon", id |-> id,
             coupon |-> coupons[id]]]
    /\ UNCHANGED <<coupons, config, now, jar, redeemed, issued>>

\* the response of validate_coupon
ValidateResponse(id, gate, coupon) ==
    IF gate = "ok"
    THEN [pc |-> "done", route |-> "validate_coupon", id |-> id, status |-> 200,
          valid |-> TRUE, msg |-> "Valid coupon", discount |-> coupon.discount]
    ELSE [pc |-> "done", route |-> "validate_coupon", id |-> id, status |-> 200,
          valid |-> FALSE, msg |-> gate]

\* mutant: the checks read the stored document again (a compare-and-set)
ValidateUpdate_Atomic(p) ==
    /\ req[p].pc = "update"
    /\ LET id   == req[p].id
           gate == ValidateGate(coupons[id], now)
       IN  /\ req' = [req EXCEPT ![p] = ValidateResponse(id, gate, coupons[id])]
           /\ IF gate = "ok"
              THEN /\ coupons' = [coupons EXCEPT ![id].used = TRUE]
                   /\ redeemed' = [redeemed EXCEPT ![id] = @ + 1]
              ELSE UNCHANGED <<coupons, redeemed>>
    /\ UNCHANGED <<config, now, jar, issued>>

\* the checks on the document find_one returned (the clock is read in this
\* step), then update_one($set used) and the response
ValidateUpdate(p) ==
    /\ req[p].pc = "update"
    /\ LET id   == req[p].id
           gate == ValidateGate(req[p].coupon, now)
       IN  /\ req' = [req EXCEPT ![p] = ValidateResponse(id, gate, req[p].coupon)]
           /\ IF gate = "ok"
              THEN /\ coupons' = [coupons EXCEPT ![id].used = TRUE]
                   /\ redeemed' = [redeemed EXCEPT ![id] = @ + 1]
              ELSE UNCHANGED <<coupons, redeemed>>
    /\ UNCHANGED <<config, now, jar, issued>>

(* ------------------------ /admin/reset_limit --------------------------- *)

ResetLimit(p, ip, payload) ==
    /\ req[p].pc = "idle"
    /\ IF ~ResetAuthorized(ip)
       THEN /\ req' = [req EXCEPT ![p] =
                    [pc |-> "done", route |-> "reset_limit", ip |-> ip,
                     payload |-> payload, status |-> 403, msg |-> "Unauthorized"]]
            /\ UNCHANGED <<config, issued>>
       ELSE /\ config' = [limit |-> new_limit(payload), current_count |-> 0]
            /\ issued' = 0
            /\ req' = [req EXCEPT ![p] =
                    [pc |-> "done", route |-> "reset_limit", ip |-> ip,
                     payload |-> payload, status |-> 200, msg |-> "Coupon limit reset",
                     new_limit |-> new_limit(payload)]]
    /\ UNCHANGED <<coupons, now, jar, redeemed>>

(* ---------------------------- environment ------------------------------ *)

\* the client receives the response; response.set_cookie fills its jar
Return(p) ==
    /\ req[p].pc = "done"
    /\ jar' = IF req[p].route = "generate_coupon" /\ req[p].set_cookie
              THEN [jar EXCEPT ![req[p].ip] = TRUE]
              ELSE jar
    /\ req' = [req EXCEPT ![p] = Idle]
    /\ UNCHANGED <<coupons, config, now, redeemed, issued>>

\* max_age=24 * 60 * 60: the cookie leaves the jar
CookieExpire(d) ==
    /\ jar[d]
    /\ jar' = [jar EXCEPT ![d] = FALSE]
    /\ UNCHANGED <<coupons, config, now, req, redeemed, issued>>

\* datetime.now() advances
Tick ==
    /\ now < MaxTime
    /\ now' = now + 1
    /\ UNCHANGED <<coupons, config, jar, req, redeemed, issued>>

(* -------------------------- specifications ----------------------------- *)

AllIdle == \A q \in Procs : req[q].pc = "idle"
FreshIds == {c \in IDs : coupons[c] = None}

\* The whole service: all handlers interleave at their store operations.
\* Issuance and reset read and write config, the jar and the documents they
\* insert; validation reads a document and the clock and writes its used flag.
\* The properties below are checked on these two families of routes, each
\* with its handlers interleaving and with one request at a time.
Next ==
    \/ \E p \in Procs :
          \/ \E d \in IPs : GenCheck(p, d, IDs)
          \/ GenInsert(p)
          \/ GenInc(p)
          \/ \E ok \in BOOLEAN : GenRender(p, ok)
          \/ \E id \in IDs : ValidateFind(p, id)
          \/ ValidateUpdate(p)
          \/ \E ip \in IPs, payload \in Payloads : ResetLimit(p, ip, payload)
          \/ Return(p)
    \/ \E d \in IPs : CookieExpire(d)
    \/ Tick

Spec == Init /\ [][Next]_vars

\* Issuance and reset: the handlers that write coupons and config interleave
\* at their store operations; uuid4 may repeat and rendering may fault.
\* Validation writes only the used flag, which these handlers never read.
IssueNext ==
    \/ \E p \in Procs :
          \/ \E d \in IPs : GenCheck(p, d, IDs)
          \/ GenInsert(p)
          \/ GenInc(p)
          \/ \E ok \in BOOLEAN : GenRender(p, ok)
          \/ \E ip \in IPs, payload \in Payloads : ResetLimit(p, ip, payload)
          \/ Return(p)
    \/ \E d \in IPs : CookieExpire(d)

IssueSpec == Init /\ [][IssueNext]_vars

\* Issuance and reset with one request at a time, no repeated identifier and
\* no rendering fault.
SeqIssueNext ==
    \/ \E p \in Procs :
          \/ AllIdle /\ \E d \in IPs : GenCheck(p, d, FreshIds)
          \/ GenInsert(p)
          \/ GenInc(p)
          \/ GenRender(p, TRUE)
          \/ AllIdle /\ \E ip \in IPs, payload \in Payloads : ResetLimit(p, ip, payload)
          \/ Return(p)
    \/ \E d \in IPs : CookieExpire(d)

SeqIssueSpec == Init /\ [][SeqIssueNext]_vars

\* Validation: validations interleave with each other, with issuance and with
\* the clock; coupons are issued one at a time without faults.
ValidateNext ==
    \/ \E p \in Procs :
          \/ AllIdle /\ \E d \in IPs : GenCheck(p, d, FreshIds)
          \/ GenInsert(p)
          \/ GenInc(p)
          \/ GenRender(p, TRUE)
          \/ \E id \in IDs : ValidateFind(p, id)
          \/ ValidateUpdate(p)
          \/ Return(p)
    \/ Tick

ValidateSpec == Init /\ [][ValidateNext]_vars

\* Validation with one request at a time.
SeqValidateNext ==
    \/ \E p \in Procs :
          \/ AllIdle /\ \E d \in IPs : GenCheck(p, d, FreshIds)
          \/ GenInsert(p)
          \/ GenInc(p)
          \/ GenRender(p, TRUE)
          \/ AllIdle /\ \E id \in IDs : ValidateFind(p, id)
          \/ ValidateUpdate(p)
          \/ Return(p)
    \/ Tick

SeqValidateSpec == Init /\ [][SeqValidateNext]_vars

(* ------------------------------ claims --------------------------------- *)

\* the coupons written for address ip
CouponsOf(ip) == {c \in IDs : coupons[c] # None /\ coupons[c].generating_ip = ip}

\* slot p holds the response of a request to route
Answered(p, route) == req[p].pc = "done" /\ req[p].route = route

\* in this step slot p takes up a request to route
Starts(p, route) == req[p].pc = "idle" /\ req'[p].pc # "idle" /\ req'[p].route = route

\* C1: an address other than MASTER_IP never has more than one coupon written
\* for it, and no request of an address that has one gets past the checks of
\* generate_coupon (the statement of the claim; the handler does not call
\* is_ip_allowed, and the statement fails).
C1_OneCouponPerIp ==
    /\ \A ip \in IPs \ {MASTER_IP} : Cardinality(CouponsOf(ip)) <= 1
    /\ \A p \in Procs :
          req[p].pc = "insert" /\ req[p].ip # MASTER_IP => is_ip_allowed(req[p].ip)

\* C2: with one request at a time, no identifier is answered valid:true more
\* than once; used is true exactly from that answer on; the answer valid:true
\* carries the discount "10%"; and every answer for the identifier after it is
\* valid:false, "Coupon already used".
C2_RedeemedOnce ==
    \A c \in IDs :
        /\ redeemed[c] <= 1
        /\ redeemed[c] = 1 <=> (coupons[c] # None /\ coupons[c].used)
        /\ \A p \in Procs :
              Answered(p, "validate_coupon") /\ req[p].id = c =>
                  IF req[p].valid
                  THEN redeemed[c] = 1 /\ req[p].discount = "10%"
                  ELSE redeemed[c] = 1 => req[p].msg = "Coupon already used"

\* C2 witness: a second validation of a redeemed coupon has been answered
C2_SecondValidation ==
    \E p \in Procs :
        /\ Answered(p, "validate_coupon")
        /\ redeemed[req[p].id] = 1
        /\ ~req[p].valid
        /\ req[p].msg = "Coupon already used"

\* C3: a request to /generate_coupon from a device whose jar holds the cookie,
\* whatever its address and whatever limit and current_count are, is answered
\* 403 "already generated" in its first step, which writes neither coupons nor
\* config.
C3_CookieRefused ==
    [][\A p \in Procs :
          Starts(p, "generate_coupon") /\ jar[req'[p].ip] =>
              /\ req'[p].pc = "done"
              /\ req'[p].cookie
              /\ req'[p].status = 403
              /\ req'[p].msg = "already generated"
              /\ ~req'[p].set_cookie
              /\ coupons' = coupons
              /\ config' = config
              /\ issued' = issued]_vars

\* C3 witness: MASTER_IP itself, with the quota used up, has been refused for
\* its cookie
C3_MasterRefused ==
    \E p \in Procs :
        /\ Answered(p, "generate_coupon")
        /\ req[p].ip = MASTER_IP
        /\ req[p].cookie
        /\ req[p].status = 403
        /\ config.current_count >= config.limit

\* in this step slot p, running a request to route, moves
Moves(p, route) ==
    /\ req'[p] # req[p]
    /\ \/ req[p].pc # "idle" /\ req[p].route = route
       \/ req'[p].pc # "idle" /\ req'[p].route = route

\* C4 as stated: every request to /generate_coupon from MASTER_IP succeeds
\* (fails for a request that carries the cookie, which is answered 403).
C4_MasterAlwaysSucceeds ==
    \A p \in Procs :
        Answered(p, "generate_coupon") /\ req[p].ip = MASTER_IP => req[p].status = 200

\* C4 as amended: a request to /generate_coupon from MASTER_IP that carries no
\* cookie passes the checks whatever limit and current_count are, writes a new
\* coupon with generated_by_master set and is answered 200; and no step of a
\* request from MASTER_IP, with or without the cookie, changes config.
C4_MasterWithoutCookie ==
    [][\A p \in Procs :
          /\ Starts(p, "generate_coupon") /\ req'[p].ip = MASTER_IP /\ ~jar[MASTER_IP] =>
                req'[p].pc = "insert"
          /\ req[p].pc = "insert" /\ req[p].ip = MASTER_IP /\ req'[p] # req[p] =>
                /\ coupons[req[p].id] = None
                /\ coupons'[req[p].id] # None
                /\ coupons'[req[p].id].generated_by_master
                /\ coupons'[req[p].id].generating_ip = MASTER_IP
                /\ \A c \in IDs \ {req[p].id} : coupons'[c] = coupons[c]
                /\ req'[p].pc = "render"
          /\ req[p].pc = "render" /\ req[p].ip = MASTER_IP /\ req'[p] # req[p] =>
                req'[p].pc = "done" /\ req'[p].status = 200
          /\ Moves(p, "generate_coupon")
                /\ (IF req[p].pc # "idle" THEN req[p].ip ELSE req'[p].ip) = MASTER_IP =>
                config' = config /\ issued' = issued]_vars

\* C4 witness: MASTER_IP has been served a coupon with the quota used up
C4_MasterServedOverQuota ==
    \E p \in Procs :
        /\ Answered(p, "generate_coupon")
        /\ req[p].ip = MASTER_IP
        /\ req[p].status = 200
        /\ config.current_count >= config.limit
        /\ \E c \in IDs : coupons[c] # None /\ coupons[c].generated_by_master

\* C5: with one request at a time, a request to /generate_coupon from another
\* address than MASTER_IP and without the cookie is answered 403 "limit
\* reached" exactly when current_count >= limit; otherwise it writes one
\* coupon, adds exactly one to current_count and is answered 200.  Hence
\* between requests current_count is the number of such coupons written since
\* the last reset, and it never exceeds limit.
C5_QuotaSequential ==
    /\ [](/\ config.current_count <= config.limit
          /\ issued <= config.limit
          /\ AllIdle => issued = config.current_count)
    /\ [][\A p \in Procs :
          /\ Starts(p, "generate_coupon") /\ req'[p].ip # MASTER_IP /\ ~jar[req'[p].ip] =>
                IF config.current_count >= config.limit
                THEN /\ req'[p].pc = "done"
                     /\ req'[p].status = 403
                     /\ req'[p].msg = "limit reached"
                     /\ UNCHANGED <<coupons, config, issued>>
                ELSE /\ req'[p].pc = "insert"
                     /\ UNCHANGED <<coupons, config, issued>>
          /\ req[p].pc = "insert" /\ req[p].ip # MASTER_IP /\ req'[p] # req[p] =>
                /\ coupons[req[p].id] = None /\ coupons'[req[p].id] # None
                /\ config' = config
                /\ req'[p].pc = "inc"
          /\ req[p].pc = "inc" /\ req'[p] # req[p] =>
                /\ config' = [config EXCEPT !.current_count = @ + 1]
                /\ coupons' = coupons
                /\ req'[p].pc = "render"
          /\ req[p].pc = "render" /\ req[p].ip # MASTER_IP /\ req'[p] # req[p] =>
                /\ req'[p].pc = "done" /\ req'[p].status = 200
                /\ UNCHANGED <<coupons, config>>]_vars

\* C5 witness: a limit L > 0 was set, L coupons were issued, and the next
\* request has been refused
C5_RefusedAtLimit ==
    \E p \in Procs :
        /\ Answered(p, "generate_coupon")
        /\ req[p].ip # MASTER_IP
        /\ req[p].msg = "limit reached"
        /\ config.limit > 0
        /\ config.limit < DefaultLimit
        /\ issued = config.limit
        /\ config.current_count = config.limit

\* C6: current_count changes only by +1, in the increment of a request to
\* /generate_coupon from another address than MASTER_IP, with limit left
\* alone, or to zero, in a reset from MASTER_IP, which sets limit to the value
\* supplied; a reset from another address is answered 403 "Unauthorized" and
\* leaves config as it was.
C6_CountChanges ==
    [][/\ config' # config =>
            \E p \in Procs :
                \/ /\ req[p].pc = "inc" /\ req[p].ip # MASTER_IP /\ req'[p].pc = "render"
                   /\ config' = [config EXCEPT !.current_count = @ + 1]
                \/ /\ Starts(p, "reset_limit") /\ req'[p].ip = MASTER_IP
       /\ \A p \in Procs :
            Starts(p, "reset_limit") =>
                IF req'[p].ip = MASTER_IP
                THEN /\ req'[p].status = 200
                     /\ config' = [limit |-> IF req'[p].payload = NoLimit
                                             THEN 150 ELSE req'[p].payload.limit,
                                   current_count |-> 0]
                ELSE /\ req'[p].pc = "done"
                     /\ req'[p].status = 403
                     /\ req'[p].msg = "Unauthorized"
                     /\ config' = config]_vars

\* C6 witness: a reset from another address than MASTER_IP has been refused
\* while coupons were counted
C6_ResetRefused ==
    \E p \in Procs :
        /\ Answered(p, "reset_limit")
        /\ req[p].ip # MASTER_IP
        /\ req[p].status = 403
        /\ config.current_count > 0

\* in this step slot p answers a request to /validate_coupon
Validates(p) == req[p].pc = "update" /\ req'[p].pc = "done"

\* C7: the checks of validate_coupon are made on the document find_one
\* returned, not on the stored one: a validation that read the coupon unused
\* and finds it unexpired answers valid:true with the discount, also when
\* another validation has set used in between (so that the identifier is
\* redeemed a second time).
C7_ChecksTheDocumentRead ==
    [][\A p \in Procs :
          Validates(p) /\ req[p].coupon # None /\ ~req[p].coupon.used
                /\ now <= req[p].coupon.expiry_date =>
              /\ req'[p].valid
              /\ req'[p].discount = "10%"
              /\ redeemed'[req[p].id] = redeemed[req[p].id] + 1
              /\ coupons'[req[p].id].used]_vars

\* C7 witness: one coupon has been redeemed twice
C7_RedeemedTwice == \E c \in IDs : redeemed[c] = 2

\* C8: the coupon write and the increment are steps of their own and neither
\* looks at the quota again: the write adds the coupon and leaves config
\* alone, so that until the increment the store holds a coupon that
\* current_count does not count, and the increment adds one to current_count
\* whatever limit is (so that current_count can pass limit).
C8_WriteThenIncrement ==
    /\ [](\A p \in Procs :
            req[p].pc = "inc" =>
                /\ coupons[req[p].id] # None
                /\ req[p].ip # MASTER_IP)
    /\ [][\A p \in Procs :
          /\ req[p].pc = "insert" /\ req'[p] # req[p] /\ coupons[req[p].id] = None =>
                /\ coupons'[req[p].id] = coupon_data(req[p].ip, req[p].expiry_date)
                /\ config' = config
                /\ req'[p].pc = IF req[p].ip = MASTER_IP THEN "render" ELSE "inc"
          /\ req[p].pc = "inc" /\ req'[p] # req[p] =>
                /\ config'.current_count = config.current_count + 1
                /\ config'.limit = config.limit
                /\ coupons' = coupons]_vars

\* C8 witness: two devices of different addresses each got a coupon and
\* current_count is above limit
C8_OverLimit ==
    /\ config.current_count > config.limit
    /\ issued > config.limit
    /\ \E a, b \in IPs \ {MASTER_IP} : a # b /\ CouponsOf(a) # {} /\ CouponsOf(b) # {}

\* C9: nothing is rolled back.  A rendering fault is answered 500 without
\* Set-Cookie and leaves the coupon in the store and config as incremented;
\* the answer leaves the device's jar as it was, and a device without the
\* cookie passes the cookie check again.  A coupon write that fails on an
\* existing identifier is answered 500, ends the request before the
\* increment, and leaves coupons and config as they were.
C9_NoRollback ==
    [][\A p \in Procs :
          /\ req[p].pc = "render" /\ req'[p] # req[p] =>
                /\ req'[p].pc = "done"
                /\ coupons' = coupons /\ coupons[req[p].id] # None
                /\ config' = config
                /\ req'[p].status \in {200, 500}
                /\ req'[p].set_cookie <=> req'[p].status = 200
          /\ Answered(p, "generate_coupon") /\ req[p].status = 500 /\ req'[p] # req[p] =>
                /\ jar' = jar
                /\ coupons' = coupons
                /\ config' = config
          /\ req[p].pc = "insert" /\ req'[p] # req[p] /\ coupons[req[p].id] # None =>
                /\ req'[p].pc = "done"
                /\ req'[p].status = 500
                /\ ~req'[p].set_cookie
                /\ coupons' = coupons
                /\ config' = config
          /\ Starts(p, "generate_coupon") /\ ~jar[req'[p].ip] =>
                \/ req'[p].pc = "insert"
                \/ req'[p].msg = "limit reached"]_vars

\* C9 witness: a device without the cookie whose earlier coupon is in the
\* store and counted is writing a further one, after a rendering fault
C9_FurtherCoupon ==
    \E p, q \in Procs :
        /\ Answered(q, "generate_coupon")
        /\ req[q].msg = "render error"
        /\ req[p].pc = "inc"
        /\ req[p].ip = req[q].ip
        /\ ~jar[req[p].ip]
        /\ Cardinality(CouponsOf(req[p].ip)) = 2
        /\ config.current_count = 1

\* C10: validate_coupon checks not found, then used, then expired.  An answer
\* valid:false is one of the three and changes nothing in the store; a
\* coupon whose expiry is before now is not redeemed and its used flag is not
\* set; a coupon read used is answered "Coupon already used", expired or not;
\* an unknown identifier is answered "Coupon not found"; and a coupon read
\* unused at now = expiry is redeemed.
C10_ValidationOrder ==
    [][\A p \in Procs :
          Validates(p) =>
              LET doc == req[p].coupon
                  id  == req[p].id
              IN  /\ ~req'[p].valid =>
                        /\ req'[p].msg \in {"Coupon not found", "Coupon already used",
                                            "Coupon expired"}
                        /\ coupons' = coupons
                        /\ redeemed' = redeemed
                  /\ doc = None <=> req'[p].msg = "Coupon not found"
                  /\ doc # None /\ doc.used => req'[p].msg = "Coupon already used"
                  /\ doc # None /\ ~doc.used /\ now > doc.expiry_date =>
                        req'[p].msg = "Coupon expired"
                  /\ doc # None /\ now > doc.expiry_date =>
                        /\ ~req'[p].valid
                        /\ coupons'[id].used = coupons[id].used
                  /\ doc # None /\ ~doc.used /\ now = doc.expiry_date =>
                        /\ req'[p].valid
                        /\ coupons'[id].used
                  /\ \A c \in IDs \ {id} : coupons'[c] = coupons[c]
                  /\ config' = config]_vars

\* C10 witness: a coupon that is both used and expired has been reported as
\* already used
C10_UsedAndExpired ==
    \E p \in Procs :
        /\ Answered(p, "validate_coupon")
        /\ req[p].msg = "Coupon already used"
        /\ coupons[req[p].id].used
        /\ now > coupons[req[p].id].expiry_date
        /\ redeemed[req[p].id] = 1

=============================================================================
